---- MODULE Spec2Model ----
(***************************************************************************)
(* Model of mautrix.util.async_db.upgrade: the UpgradeTable registry       *)
(* (register) and the migration executor (upgrade, _save_version) run      *)
(* against a database that holds the version table and the schema; the     *)
(* module-level directory of tables (upgrade_tables, register_upgrade);    *)
(* and mautrix.util.simple_template.SimpleTemplate.                        *)
(*                                                                         *)
(* Conventions                                                             *)
(*  - Python lists are 0-based, TLA+ sequences 1-based: the step at Python *)
(*    index i is upgrades[i + 1].                                          *)
(*  - A function object is a pair <<name, serial>>; the attributes that    *)
(*    register() stores on the function object live in attrs[fn], so two   *)
(*    list slots holding the same object share their attributes.           *)
(*  - Optional[int] is an integer with None == -1; a callable destination  *)
(*    is the marker CALLABLE.                                              *)
(*  - schema is the set of statements <<i, k>> (statement k of the body of *)
(*    the step at index i) applied to the database since Init.             *)
(*  - outcome[p].version is the index of the step an exception left, or   *)
(*    the version UnsupportedDatabaseVersion carries.                      *)
(*  - log[p] holds the warnings and the "not upgrading" line; the debug    *)
(*    line of each step (line 132) is not recorded.                        *)
(*  - Every connection works on the committed database directly, except    *)
(*    inside conn.transaction(), where it works on work[p] and the commit  *)
(*    installs work[p].                                                    *)
(*  - A str is a sequence of one-character strings; a module path is the   *)
(*    sequence of its dot-separated parts.                                 *)
(*  - An Optional result of the formatter is <<x>> for the value x and     *)
(*    <<>> for None, so that the int -1 and the str "" are not None.       *)
(***************************************************************************)
EXTENDS Integers, Sequences, FiniteSets, TLC

\* ---------------------------------------------------------------- bounds
MaxRegs == 2        \* register() calls made before the first upgrade()
MaxCalls == 2       \* upgrade() calls per process
MaxExec == 4        \* step bodies run within one upgrade() call
MaxVer == 4         \* largest version a body or a callable destination returns
MaxParts == 3       \* parts of a dotted module path
MaxDirOps == 3      \* calls made to the directory functions
MaxLen == 4         \* characters of a text handed to parse()

\* ---------------------------------------------------------------- values
None == -1
CALLABLE == -2
BodyStmts == 2

Procs == {"p1", "p2"}
noop_upgrade == <<"noop_upgrade", 0>>
TwoArgFns == {"upgrade_latest"}
OneArgFns == {"upgrade_v4"}
UserFns == {<<n, 0>> : n \in TwoArgFns \cup OneArgFns}
Wrappers == {<<"_wrapper", k>> : k \in 1..(MaxRegs + 1)}
FnIds == {noop_upgrade} \cup UserFns \cup Wrappers

RegisteredFns == {<<"upgrade_v4", 0>>}
Indexes == {-1, 0, 2}
Descriptions == {"Add name_set"}
Destinations == {None, 0, 3, CALLABLE}
Returns == {None, 0, 2, MaxVer}
DestReturns == {0, 3}

NoAttrs == [tagged |-> FALSE, description |-> "", transaction |-> TRUE,
            destination |-> None]
NoOutcome == [kind |-> "none", name |-> "", version |-> None, latest |-> 0]
NoWork == [rows |-> {}, schema |-> {}]

\* dotted module paths, as the sequences of their parts; NoModule is a function
\* object without a __module__ attribute
Parts == {"a", "b"}
Modules == UNION {[1..n -> Parts] : n \in 1..MaxParts}
NoModule == <<>>
NotFound == [kind |-> "none", name |-> <<>>, module |-> <<>>]

VARIABLES
    upgrades,           \* UpgradeTable.upgrades
    attrs,              \* the __mau_db_upgrade_*__ attributes of each function object
    wrapped,            \* number of _wrapper closures created so far
    regs,               \* number of register() calls made so far
    allow_unsupported,  \* UpgradeTable.allow_unsupported
    database_name,      \* UpgradeTable.database_name
    tableExists,        \* the version table exists
    rows,               \* committed rows of the version table
    schema,             \* committed schema statements
    writers,            \* the processes that run upgrade()
    pc,                 \* position of each process inside upgrade()
    version, old_version, new_version,   \* the locals of upgrade()
    ret,                \* what the body of the last step run returned
    stmts,              \* the statements the body of the last step run executed
    inTx,               \* the process is inside conn.transaction()
    work,               \* the uncommitted state of that transaction
    outcome,            \* how the last finished upgrade() call ended
    log,                \* log lines of the current (or last) call
    io,                 \* what the current (or last) call did to the database handle
    nexec,              \* step bodies run in the current (or last) call
    calls,              \* upgrade() calls started
    upgrade_tables,     \* the module-level dict: module path -> list of upgrades
    found,              \* how the last register_upgrade() call ended
    dirops,             \* calls made to the directory functions so far
    self,               \* the fields of the SimpleTemplate instance
    val,                \* the argument of the last format_full() or parse() call
    out                 \* what that call returned

registry == <<upgrades, attrs, wrapped, regs, allow_unsupported, database_name>>
database == <<tableExists, rows, schema>>
locals == <<pc, version, old_version, new_version, ret, stmts, inTx, work>>
history == <<outcome, log, io, nexec, calls>>
directory == <<upgrade_tables, found, dirops>>
formatter == <<self, val, out>>
aside == <<directory, formatter>>
vars == <<registry, database, writers, locals, history, aside>>

\* ------------------------------------------------------- pure functions

\* Python truthiness of an Optional[int] or a callable, and the `or` operator
Truthy(x) == x # None /\ x # 0
Or(x, y) == IF Truthy(x) THEN x ELSE y

\* [noop_upgrade] * n
Noops(n) == [k \in 1..n |-> noop_upgrade]

\* _wrap_upgrade: a one-argument function gets a new two-argument closure
WrapUpgrade(fn, count) ==
    IF fn[1] \in OneArgFns THEN <<"_wrapper", count + 1>> ELSE fn

\* a register() that forgets the padding
Registered_NoPadding(list, index, fn) ==
    IF index = -1 \/ index >= Len(list)
    THEN Append(list, fn)
    ELSE [list EXCEPT ![index + 1] = fn]

\* the list after actually_register stores fn at index
Registered(list, index, fn) ==
    IF index = -1 \/ index = Len(list)
    THEN Append(list, fn)
    ELSE LET padded == IF Len(list) <= index
                       THEN list \o Noops(index - Len(list) + 1)
                       ELSE list
         IN [padded EXCEPT ![index + 1] = fn]

\* getattr(upgrade, "__mau_db_upgrade_destination__", None)
Destination(at, fn) == IF at[fn].tagged THEN at[fn].destination ELSE None
\* getattr(upgrade, "__mau_db_upgrade_transaction__", True)
Transaction(at, fn) == IF at[fn].tagged THEN at[fn].transaction ELSE TRUE
\* getattr(upgrade, "__mau_db_upgrade_description__", None)
Description(at, fn) == IF at[fn].tagged THEN at[fn].description ELSE ""

\* a loop that ignores upgrades_to
ComputedVersion_AlwaysNext(at, fn, v) == v + 1

\* new_version before a callable destination is awaited
ComputedVersion(at, fn, v) == Or(Destination(at, fn), v + 1)

\* an executor that ignores what the body returns
ResultVersion_IgnoresBody(r, nv) == nv

\* version = await upgrade(conn, db.scheme) or new_version
ResultVersion(r, nv) == Or(r, nv)

\* a comparison of line 108 that lets the first unknown version through
IsUnsupported_OffByOne(n, v) == n + 1 < v
\* line 108: the database is ahead of the code
IsUnsupported(n, v) == n < v

\* a comparison of line 117 that is off by one
IsCurrent_OffByOne(n, v) == n = v + 1
\* line 117: nothing to do
IsCurrent(n, v) == n = v

\* a loop that stops one step early
Pending_OffByOne(v, n) == v + 1 < n
\* line 122: the loop test
Pending(v, n) == v < n

\* a read that never finds the row
ReadRow_AlwaysZero(rs) == 0
\* row["version"] if row else 0
ReadRow(rs) == IF rs = {} THEN 0 ELSE CHOOSE v \in rs : TRUE

\* the statements the body of the step at index i runs
Statements(i, k) == {<<i, s>> : s \in 1..k}

\* a raise that rolls nothing back
AfterRaise_NoRollback(transactional, committed, touched) == touched
\* a raise that rolls everything back, transaction or not
AfterRaise_RollsBackAll(transactional, committed, touched) == committed

\* what a body leaves in the database when it raises after touching `touched`
AfterRaise(transactional, committed, touched) ==
    IF transactional THEN committed ELSE touched

\* _save_version on a set of rows: DELETE FROM, then INSERT
SavedRows(rs, v, result) ==
    CASE result = "ok" -> {v}
      [] result = "insert_fails" -> {}
      [] OTHER -> rs

\* a transaction whose work survives the exception
TxEnd_KeepsWork(committed, working, ok) == working

\* the end of `async with conn.transaction()`: commit, or roll back on an exception
TxEnd(committed, working, ok) == IF ok THEN working ELSE committed

\* line 142: the warning about a step that did not land on new_version
Mismatch(old, nv, v) == IF v # nv THEN {<<"warning", "actually went", old, v>>} ELSE {}

\* -------------------------------------------- pure functions: the directory

\* ".".join(used_parts) for the first k parts of a module path
Joined(parts, k) == SubSeq(parts, 1, k)

\* a lookup that prefers the longest registered prefix
FindUpgradeTable_Longest(tables, parts, k) ==
    LET hits == {j \in k..Len(parts) : Joined(parts, j) \in DOMAIN tables}
    IN IF hits = {}
       THEN [kind |-> "KeyError", name |-> <<>>]
       ELSE [kind |-> "returned",
             name |-> Joined(parts, CHOOSE j \in hits : \A i \in hits : i <= j)]

\* lines 164-176: the table of the shortest registered prefix of the module
\* path, tried from k parts on; KeyError when there is none
RECURSIVE FindUpgradeTable(_, _, _)
FindUpgradeTable(tables, parts, k) ==
    IF k > Len(parts)
    THEN [kind |-> "KeyError", name |-> <<>>]
    ELSE IF Joined(parts, k) \in DOMAIN tables
         THEN [kind |-> "returned", name |-> Joined(parts, k)]
         ELSE FindUpgradeTable(tables, parts, k + 1)

\* -------------------------------------------- pure functions: SimpleTemplate

Digits == <<"0", "1", "2", "3", "4", "5", "6", "7", "8", "9">>
DigitChars == {Digits[k] : k \in 1..Len(Digits)}
DigitValue(c) == (CHOOSE k \in 1..Len(Digits) : Digits[k] = c) - 1

\* str(n) of an int
RECURSIVE Str(_)
Str(n) ==
    IF n < 0 THEN <<"-">> \o Str(-n)
    ELSE IF n < 10 THEN <<Digits[n + 1]>>
    ELSE Str(n \div 10) \o <<Digits[(n % 10) + 1]>>

\* a slice bound as Python clamps it for a sequence of length n
Clamp(i, n) ==
    IF i < 0 THEN (IF i + n < 0 THEN 0 ELSE i + n)
    ELSE IF i > n THEN n ELSE i

\* s[lo:hi]
Slice(s, lo, hi) ==
    LET a == Clamp(lo, Len(s))
        b == Clamp(hi, Len(s))
    IN IF a < b THEN SubSeq(s, a + 1, b) ELSE <<>>

\* s.find(sub): the lowest index at which sub occurs in s, or -1
Find(s, sub) ==
    LET at == {i \in 0..(Len(s) - Len(sub)) : SubSeq(s, i + 1, i + Len(sub)) = sub}
    IN IF at = {} THEN -1 ELSE CHOOSE i \in at : \A j \in at : i <= j

\* s.strip() for the whitespace character " "
RECURSIVE Strip(_)
Strip(s) ==
    IF s = <<>> THEN s
    ELSE IF Head(s) = " " THEN Strip(Tail(s))
    ELSE IF s[Len(s)] = " " THEN Strip(SubSeq(s, 1, Len(s) - 1))
    ELSE s

\* the value of a string of digits and underscores, read after the value acc
RECURSIVE Decimal(_, _)
Decimal(s, acc) ==
    IF s = <<>> THEN acc
    ELSE IF Head(s) = "_" THEN Decimal(Tail(s), acc)
    ELSE Decimal(Tail(s), 10 * acc + DigitValue(Head(s)))

\* int(s): surrounding whitespace is stripped, one sign is allowed, the digits
\* may be grouped with single underscores; anything else is a ValueError (<<>>)
ParseInt(s) ==
    LET t == Strip(s)
        signed == t # <<>> /\ Head(t) \in {"-", "+"}
        body == IF signed THEN Tail(t) ELSE t
        wellformed ==
            /\ body # <<>>
            /\ \A k \in 1..Len(body) : body[k] \in DigitChars \cup {"_"}
            /\ body[1] # "_" /\ body[Len(body)] # "_"
            /\ \A k \in 1..(Len(body) - 1) : ~(body[k] = "_" /\ body[k + 1] = "_")
    IN IF ~wellformed THEN <<>>
       ELSE IF signed /\ Head(t) = "-" THEN <<0 - Decimal(body, 0)>>
       ELSE <<Decimal(body, 0)>>

\* self._type(s) with the ValueError caught
Construct(type, s) == IF type = "int" THEN ParseInt(s) ELSE <<s>>

\* f"{arg}" for an argument of the template's type
Formatted(type, arg) == IF type = "int" THEN Str(arg) ELSE arg

\* SimpleTemplate.__init__
SimpleTemplate(template, keyword, prefix, suffix, type) ==
    LET index == Find(template, <<"{">> \o keyword \o <<"}">>)
        length == Len(keyword) + 2
    IN [template |-> template,
        keyword |-> keyword,
        prefix |-> prefix \o Slice(template, 0, index),
        suffix |-> Slice(template, index + length, Len(template)) \o suffix,
        type |-> type]

\* SimpleTemplate.format_full
FormatFull(tpl, arg) == tpl.prefix \o Formatted(tpl.type, arg) \o tpl.suffix

\* a parse that cuts the text at -len(suffix) even when the suffix is empty
Parse_AlwaysCutsSuffix(tpl, text) ==
    LET prefix_ok == Slice(text, 0, Len(tpl.prefix)) = tpl.prefix
        has_suffix == Len(tpl.suffix) > 0
        suffix_ok == ~has_suffix
                     \/ Slice(text, 0 - Len(tpl.suffix), Len(text)) = tpl.suffix
    IN IF prefix_ok /\ suffix_ok
       THEN Construct(tpl.type, Slice(text, Len(tpl.prefix), 0 - Len(tpl.suffix)))
       ELSE <<>>

\* a parse that takes everything after the prefix, suffix included
Parse_KeepsSuffix(tpl, text) ==
    LET prefix_ok == Slice(text, 0, Len(tpl.prefix)) = tpl.prefix
        has_suffix == Len(tpl.suffix) > 0
        suffix_ok == ~has_suffix
                     \/ Slice(text, 0 - Len(tpl.suffix), Len(text)) = tpl.suffix
    IN IF prefix_ok /\ suffix_ok
       THEN Construct(tpl.type, Slice(text, Len(tpl.prefix), Len(text)))
       ELSE <<>>

\* SimpleTemplate.parse
Parse(tpl, text) ==
    LET prefix_ok == Slice(text, 0, Len(tpl.prefix)) = tpl.prefix
        has_suffix == Len(tpl.suffix) > 0
        suffix_ok == ~has_suffix
                     \/ Slice(text, 0 - Len(tpl.suffix), Len(text)) = tpl.suffix
        start == Len(tpl.prefix)
        end == IF has_suffix THEN 0 - Len(tpl.suffix) ELSE Len(text)
    IN IF prefix_ok /\ suffix_ok
       THEN Construct(tpl.type, Slice(text, start, end))
       ELSE <<>>

\* ------------------------------------------------------------ Init

InitTable ==
    /\ upgrades = <<>>
    /\ attrs = [f \in FnIds |-> NoAttrs]
    /\ wrapped = 0
    /\ regs = 0
    /\ allow_unsupported \in BOOLEAN
    /\ database_name = "database"
    /\ tableExists = FALSE
    /\ rows = {}
    /\ schema = {}
    /\ pc = [p \in Procs |-> "idle"]
    /\ version = [p \in Procs |-> 0]
    /\ old_version = [p \in Procs |-> 0]
    /\ new_version = [p \in Procs |-> 0]
    /\ ret = [p \in Procs |-> None]
    /\ stmts = [p \in Procs |-> {}]
    /\ inTx = [p \in Procs |-> FALSE]
    /\ work = [p \in Procs |-> NoWork]
    /\ outcome = [p \in Procs |-> NoOutcome]
    /\ log = [p \in Procs |-> {}]
    /\ io = [p \in Procs |-> {}]
    /\ nexec = [p \in Procs |-> 0]
    /\ calls = [p \in Procs |-> 0]

\* no module has registered itself as a parent of upgrades
InitDirectory ==
    /\ upgrade_tables = [m \in {} |-> <<>>]
    /\ found = NotFound
    /\ dirops = 0

\* a SimpleTemplate has been constructed and not used yet
InitFormatter(templates) ==
    /\ self \in templates
    /\ val = [op |-> "__init__", arg |-> <<>>]
    /\ out = <<>>

\* one migrating process, one template
Init ==
    /\ InitTable
    /\ writers = {"p1"}
    /\ InitDirectory
    /\ InitFormatter({SimpleTemplate(<<"a", "{", "i", "d", "}">>, <<"i", "d">>,
                                     <<>>, <<>>, "str")})

\* --------------------------------------------------------- register

\* UpgradeTable.register(fn, index=, description=, transaction=, upgrades_to=):
\* tags the (wrapped) function object and stores it in the list.
Register(fn, index, description, transaction, upgrades_to) ==
    /\ \A p \in Procs : calls[p] = 0
    /\ regs < MaxRegs
    /\ regs' = regs + 1
    /\ LET w == WrapUpgrade(fn, wrapped)
       IN /\ attrs' = [attrs EXCEPT ![w] =
                          [tagged |-> TRUE, description |-> description,
                           transaction |-> transaction, destination |-> upgrades_to]]
          /\ upgrades' = Registered(upgrades, index, w)
          /\ wrapped' = IF w = fn THEN wrapped ELSE wrapped + 1
    /\ UNCHANGED <<allow_unsupported, database_name, database, writers, locals, history,
                   aside>>

\* ---------------------------------------------------------- upgrade

\* the error built with version and latest swapped
UnsupportedDatabaseVersion_Swapped(name, v, latest) ==
    [kind |-> "UnsupportedDatabaseVersion", name |-> name, version |-> latest, latest |-> v]

\* UnsupportedDatabaseVersion(self.database_name, version, len(self.upgrades))
UnsupportedDatabaseVersion(name, v, latest) ==
    [kind |-> "UnsupportedDatabaseVersion", name |-> name, version |-> v, latest |-> latest]

\* the call returns: the connection (if any) is released
Return(p) ==
    /\ pc' = [pc EXCEPT ![p] = "idle"]
    /\ inTx' = [inTx EXCEPT ![p] = FALSE]
    /\ work' = [work EXCEPT ![p] = NoWork]
    /\ outcome' = [outcome EXCEPT ![p] =
                      [kind |-> "returned", name |-> "", version |-> None, latest |-> 0]]

\* an exception leaves the call while it is in the step at index `at`
Raise(p, kind, at) ==
    /\ pc' = [pc EXCEPT ![p] = "idle"]
    /\ inTx' = [inTx EXCEPT ![p] = FALSE]
    /\ work' = [work EXCEPT ![p] = NoWork]
    /\ outcome' = [outcome EXCEPT ![p] =
                      [kind |-> kind, name |-> "", version |-> at, latest |-> 0]]

\* lines 100-104: CREATE TABLE IF NOT EXISTS version
CreateVersionTable(p) ==
    /\ pc[p] = "idle"
    /\ calls[p] < MaxCalls
    /\ calls' = [calls EXCEPT ![p] = @ + 1]
    /\ tableExists' = TRUE
    /\ pc' = [pc EXCEPT ![p] = "created"]
    /\ log' = [log EXCEPT ![p] = {}]
    /\ io' = [io EXCEPT ![p] = {"create"}]
    /\ nexec' = [nexec EXCEPT ![p] = 0]
    /\ version' = [version EXCEPT ![p] = 0]
    /\ old_version' = [old_version EXCEPT ![p] = 0]
    /\ new_version' = [new_version EXCEPT ![p] = 0]
    /\ UNCHANGED <<registry, rows, schema, writers, ret, stmts, inTx, work, outcome,
                   aside>>

\* db.acquire() with a lock that admits one migrating process at a time
Acquire_Exclusive(p, at) ==
    \A q \in Procs \ {p} : at[q] \notin {"loop", "dest", "body", "save"}

\* line 121: db.acquire() hands the caller a connection of its own pool, whatever
\* the other processes are doing
Acquire(p, at) == TRUE

\* lines 105-121: read the version and decide whether there is anything to do
ReadVersion(p) ==
    /\ pc[p] = "created"
    /\ LET v == ReadRow(rows)
           n == Len(upgrades)
       IN IF IsUnsupported(n, v)
          THEN IF ~allow_unsupported
               THEN /\ pc' = [pc EXCEPT ![p] = "idle"]
                    /\ outcome' = [outcome EXCEPT ![p] =
                                      UnsupportedDatabaseVersion(database_name, v, n)]
                    /\ io' = [io EXCEPT ![p] = @ \cup {"select"}]
                    /\ UNCHANGED <<version, inTx, work, log>>
               ELSE /\ Return(p)
                    /\ log' = [log EXCEPT ![p] = @ \cup {<<"warning", "unsupported", v, n>>}]
                    /\ io' = [io EXCEPT ![p] = @ \cup {"select"}]
                    /\ UNCHANGED version
          ELSE IF IsCurrent(n, v)
          THEN /\ Return(p)
               /\ log' = [log EXCEPT ![p] = @ \cup {<<"debug", "not upgrading", v, v>>}]
               /\ io' = [io EXCEPT ![p] = @ \cup {"select"}]
               /\ UNCHANGED version
          ELSE /\ Acquire(p, pc)
               /\ pc' = [pc EXCEPT ![p] = "loop"]
               /\ version' = [version EXCEPT ![p] = v]
               /\ io' = [io EXCEPT ![p] = @ \cup {"select", "acquire"}]
               /\ UNCHANGED <<inTx, work, outcome, log>>
    /\ UNCHANGED <<registry, database, writers, old_version, new_version, ret, stmts,
                   nexec, calls, aside>>

\* the loop may start another step: fewer than MaxExec bodies have run in the call
MayRun(p) == Pending(version[p], Len(upgrades)) => nexec[p] < MaxExec

\* lines 122-134: the loop test and the computed new_version
LoopHead(p) ==
    /\ pc[p] = "loop"
    /\ IF Pending(version[p], Len(upgrades))
       THEN /\ LET upgrade == upgrades[version[p] + 1]
                     nv == ComputedVersion(attrs, upgrade, version[p])
                 IN /\ old_version' = [old_version EXCEPT ![p] = version[p]]
                    /\ ret' = [ret EXCEPT ![p] = None]
                    /\ stmts' = [stmts EXCEPT ![p] = {}]
                    /\ IF nv = CALLABLE
                       THEN /\ pc' = [pc EXCEPT ![p] = "dest"]
                            /\ UNCHANGED new_version
                       ELSE /\ pc' = [pc EXCEPT ![p] = "body"]
                            /\ new_version' = [new_version EXCEPT ![p] = nv]
            /\ UNCHANGED <<inTx, work, outcome>>
       ELSE /\ Return(p)
            /\ UNCHANGED <<old_version, new_version, ret, stmts>>
    /\ UNCHANGED <<registry, database, writers, version, log, io, nexec, calls, aside>>

\* lines 128-129: new_version = await new_version(conn, db.scheme)
ResolveDestination(p, r, raises) ==
    /\ pc[p] = "dest"
    /\ IF raises
       THEN /\ Raise(p, "DestinationError", old_version[p])
            /\ UNCHANGED new_version
       ELSE /\ pc' = [pc EXCEPT ![p] = "body"]
            /\ new_version' = [new_version EXCEPT ![p] = r]
            /\ UNCHANGED <<inTx, work, outcome>>
    /\ io' = [io EXCEPT ![p] = @ \cup {"destination"}]
    /\ UNCHANGED <<registry, database, writers, version, old_version, ret, stmts,
                   log, nexec, calls, aside>>

\* lines 135-137 and 140: the body of the step, inside a transaction if the step
\* asks for one. A user body runs BodyStmts statements; it raises after k of them,
\* or returns r. noop_upgrade runs nothing and returns None.
RunBody(p, k, r, raises) ==
    /\ pc[p] = "body"
    /\ LET i == version[p]
           upgrade == upgrades[i + 1]
           transactional == Transaction(attrs, upgrade)
           touched == schema \cup Statements(i, k)
       IN /\ IF upgrade = noop_upgrade
             THEN k = 0 /\ r = None /\ ~raises
             ELSE IF raises THEN k < BodyStmts /\ r = None ELSE k = BodyStmts
          /\ nexec' = [nexec EXCEPT ![p] = IF @ < MaxExec THEN @ + 1 ELSE @]
          /\ ret' = [ret EXCEPT ![p] = r]
          /\ stmts' = [stmts EXCEPT ![p] = Statements(i, k)]
          /\ io' = [io EXCEPT ![p] = @ \cup {"body"}
                                       \cup (IF transactional THEN {"transaction"} ELSE {})]
          /\ IF raises
             THEN /\ schema' = AfterRaise(transactional, schema, touched)
                  /\ Raise(p, "StepError", i)
                  /\ UNCHANGED version
             ELSE /\ schema' = IF transactional THEN schema ELSE touched
                  /\ inTx' = [inTx EXCEPT ![p] = transactional]
                  /\ work' = [work EXCEPT ![p] =
                                 IF transactional
                                 THEN [rows |-> rows, schema |-> touched]
                                 ELSE NoWork]
                  /\ version' = [version EXCEPT ![p] = ResultVersion(r, new_version[p])]
                  /\ pc' = [pc EXCEPT ![p] = "save"]
                  /\ UNCHANGED outcome
    /\ UNCHANGED <<registry, tableExists, rows, writers, old_version, new_version,
                   log, calls, aside>>

\* lines 138 and 141 (_save_version, lines 94-97), the commit that ends the
\* transaction, and the warning of lines 142-146
SaveVersion(p, result) ==
    /\ pc[p] = "save"
    /\ LET ok == result = "ok"
       IN /\ IF inTx[p]
             THEN /\ rows' = TxEnd(rows, SavedRows(work[p].rows, version[p], result), ok)
                  /\ schema' = TxEnd(schema, work[p].schema, ok)
             ELSE /\ rows' = SavedRows(rows, version[p], result)
                  /\ schema' = schema
          /\ io' = [io EXCEPT ![p] = @ \cup {"delete"}
                                       \cup (IF result = "delete_fails" THEN {} ELSE {"insert"})]
          /\ IF ok
             THEN /\ pc' = [pc EXCEPT ![p] = "loop"]
                  /\ inTx' = [inTx EXCEPT ![p] = FALSE]
                  /\ work' = [work EXCEPT ![p] = NoWork]
                  /\ log' = [log EXCEPT ![p] =
                                @ \cup Mismatch(old_version[p], new_version[p], version[p])]
                  /\ UNCHANGED outcome
             ELSE /\ Raise(p, "SaveError", old_version[p])
                  /\ UNCHANGED log
    /\ UNCHANGED <<registry, tableExists, writers, version, old_version, new_version,
                   ret, stmts, nexec, calls, aside>>

\* ------------------------------------------------------------- Next

Next ==
    \/ \E fn \in RegisteredFns, index \in Indexes, description \in Descriptions,
          transaction \in BOOLEAN, upgrades_to \in Destinations :
            Register(fn, index, description, transaction, upgrades_to)
    \/ \E p \in writers : CreateVersionTable(p)
    \/ \E p \in writers : ReadVersion(p)
    \/ \E p \in writers : MayRun(p) /\ LoopHead(p)
    \/ \E p \in writers, r \in DestReturns, raises \in BOOLEAN :
            ResolveDestination(p, r, raises)
    \/ \E p \in writers, k \in 0..BodyStmts, r \in Returns, raises \in BOOLEAN :
            RunBody(p, k, r, raises)
    \/ \E p \in writers, result \in {"ok", "delete_fails", "insert_fails"} :
            SaveVersion(p, result)

Spec == Init /\ [][Next]_vars

\* ------------------------------------------- upgrade() calls that keep running

\* what process p can do inside upgrade(), with no cap on the bodies it runs
Step(p) ==
    \/ CreateVersionTable(p)
    \/ ReadVersion(p)
    \/ LoopHead(p)
    \/ \E r \in DestReturns, raises \in BOOLEAN : ResolveDestination(p, r, raises)
    \/ \E k \in 0..BodyStmts, r \in Returns, raises \in BOOLEAN : RunBody(p, k, r, raises)
    \/ \E result \in {"ok", "delete_fails", "insert_fails"} : SaveVersion(p, result)

NextLive ==
    \/ \E fn \in RegisteredFns, index \in Indexes, description \in Descriptions,
          transaction \in BOOLEAN, upgrades_to \in Destinations :
            Register(fn, index, description, transaction, upgrades_to)
    \/ \E p \in writers : CreateVersionTable(p)
    \/ \E p \in writers : ReadVersion(p)
    \/ \E p \in writers : LoopHead(p)
    \/ \E p \in writers, r \in DestReturns, raises \in BOOLEAN :
            ResolveDestination(p, r, raises)
    \/ \E p \in writers, k \in 0..BodyStmts, r \in Returns, raises \in BOOLEAN :
            RunBody(p, k, r, raises)
    \/ \E p \in writers, result \in {"ok", "delete_fails", "insert_fails"} :
            SaveVersion(p, result)

\* the event loop resumes a call that can go on: every awaited statement, body
\* and callable destination comes back
SpecLive == Init /\ [][NextLive]_vars /\ \A p \in Procs : WF_vars(p \in writers /\ Step(p))

\* ------------------------------------------------- two migrating processes

\* two processes run upgrade() against the same database with the same table
InitConc ==
    /\ InitTable
    /\ writers = Procs
    /\ InitDirectory
    /\ InitFormatter({SimpleTemplate(<<"a", "{", "i", "d", "}">>, <<"i", "d">>,
                                     <<>>, <<>>, "str")})

\* steps are appended and have no destination; bodies return None or raise
NextConc ==
    \/ \E fn \in RegisteredFns, description \in Descriptions, transaction \in BOOLEAN :
            Register(fn, -1, description, transaction, None)
    \/ \E p \in writers : CreateVersionTable(p)
    \/ \E p \in writers : ReadVersion(p)
    \/ \E p \in writers : MayRun(p) /\ LoopHead(p)
    \/ \E p \in writers, k \in 0..BodyStmts, raises \in BOOLEAN :
            RunBody(p, k, None, raises)
    \/ \E p \in writers, result \in {"ok", "delete_fails", "insert_fails"} :
            SaveVersion(p, result)

SpecConc == InitConc /\ [][NextConc]_vars

\* ----------------------------------------------------- vocabulary of the claims

\* the version a reader of the committed version table finds
PersistedVersion == IF rows = {} THEN 0 ELSE CHOOSE v \in rows : TRUE
\* the step at index i asks for a transaction
IsTransactional(i) == Transaction(attrs, upgrades[i + 1])
\* process p takes the step in which the body of its current step raises
BodyRaises(p) == pc[p] = "body" /\ pc'[p] \notin {"body", "save"}
\* process p takes the step in which the version of its current step is saved
StepCompletes(p) == pc[p] = "save" /\ pc'[p] = "loop"
\* process p takes the step that reads the version table
Reads(p) == pc[p] = "created" /\ pc'[p] # "created"
Errors == {"StepError", "SaveError", "DestinationError"}
Range(f) == {f[k] : k \in DOMAIN f}

\* ---------------------------------------------------------------- C1
\* C1: when the body of a transactional step raises, the call fails with that
\* error and is over (no later step runs), the committed version table and schema
\* are what they were before the step (so the persisted version is the index of
\* the failed step and every earlier commit stands), and the first step the
\* following call runs is the failed step.
C1_TransactionalBodyRaises ==
    /\ [][\A p \in writers :
            (BodyRaises(p) /\ IsTransactional(version[p]))
            => /\ pc'[p] = "idle"
               /\ outcome'[p].kind = "StepError"
               /\ outcome'[p].version = old_version[p]
               /\ rows' = rows
               /\ schema' = schema
               /\ PersistedVersion' = old_version[p]]_vars
    /\ [](\A p \in writers :
            (/\ pc[p] \in {"loop", "dest", "body"}
             /\ nexec[p] = 0
             /\ outcome[p].kind = "StepError"
             /\ IsTransactional(outcome[p].version))
            => version[p] = outcome[p].version)

\* the call after a transactional step failed at index >= 1: the statements the
\* failed body ran are not in the schema, those of an earlier step are, and the
\* call is about to run the failed step again
C1_Witness ==
    \E p \in writers :
        /\ calls[p] = 2 /\ pc[p] = "body" /\ nexec[p] = 0
        /\ outcome[p].kind = "StepError"
        /\ outcome[p].version > 0
        /\ IsTransactional(outcome[p].version)
        /\ version[p] = outcome[p].version
        /\ Statements(version[p], 1) \cap schema = {}
        /\ schema # {}

\* ---------------------------------------------------------------- C2
\* C2: a transactional step changes the committed database in one transition
\* only, its commit, which installs all statements of the body together with the
\* single version row holding the step's resulting version; every other
\* transition of the step (the body running, the body raising, the save failing)
\* leaves the committed version table and schema untouched.
C2_StepAndVersionCommitTogether ==
    [][\A p \in writers :
          (pc[p] \in {"body", "save"} /\ IsTransactional(old_version[p]))
          => IF StepCompletes(p)
             THEN /\ rows' = {version[p]}
                  /\ schema' = schema \cup stmts[p]
                  /\ stmts[p] = IF upgrades[old_version[p] + 1] = noop_upgrade
                                THEN {}
                                ELSE Statements(old_version[p], BodyStmts)
             ELSE /\ rows' = rows
                  /\ schema' = schema]_vars

\* a transactional user step has just committed
C2_Witness ==
    \E p \in writers :
        /\ pc[p] = "loop" /\ nexec[p] > 0
        /\ IsTransactional(old_version[p])
        /\ stmts[p] # {} /\ stmts[p] \subseteq schema
        /\ rows = {version[p]}

\* ---------------------------------------------------------------- C3
\* C3 as stated: after a first upgrade() call on a fresh database that returned,
\* the second call runs no step body, only creates and reads the version table,
\* writes nothing and returns normally.
C3_AsStated ==
    [][\A p \in writers :
          (calls[p] = 2 /\ Reads(p) /\ outcome[p].kind = "returned")
          => /\ pc'[p] = "idle"
             /\ nexec'[p] = 0
             /\ io'[p] = {"create", "select"}
             /\ rows' = rows
             /\ outcome'[p].kind = "returned"]_vars

\* C3 amended: when the call before it returned without raising, an upgrade()
\* call runs no step body, only creates and reads the version table and leaves the
\* database as it is; it returns normally unless the persisted version exceeds
\* len(upgrades) and allow_unsupported is false, when it raises
\* UnsupportedDatabaseVersion.
C3_SecondCallIsNoop ==
    [][\A p \in writers :
          (calls[p] >= 2 /\ Reads(p) /\ outcome[p].kind = "returned")
          => /\ pc'[p] = "idle"
             /\ nexec'[p] = 0
             /\ io'[p] = {"create", "select"}
             /\ rows' = rows
             /\ schema' = schema
             /\ outcome'[p].kind =
                   IF PersistedVersion > Len(upgrades) /\ ~allow_unsupported
                   THEN "UnsupportedDatabaseVersion"
                   ELSE "returned"]_vars

\* the second call is over, ran nothing and returned, after a first call that
\* ran statements
C3_Witness ==
    \E p \in writers :
        /\ calls[p] = 2 /\ pc[p] = "idle" /\ nexec[p] = 0
        /\ outcome[p].kind = "returned"
        /\ Len(upgrades) > 0 /\ schema # {}

\* ---------------------------------------------------------------- C4
\* C4 as stated: a call that found pending steps and returned leaves the
\* persisted version equal to len(upgrades).
C4_AsStated ==
    \A p \in writers :
        (pc[p] = "idle" /\ "acquire" \in io[p] /\ outcome[p].kind = "returned")
        => PersistedVersion = Len(upgrades)

\* C4 amended: a call that found pending steps and is over either returned,
\* leaving one version row that holds a version of at least len(upgrades), or
\* raised an error.
C4_ReturnsAtOrBeyondLatest ==
    \A p \in writers :
        (pc[p] = "idle" /\ "acquire" \in io[p])
        => \/ /\ outcome[p].kind = "returned"
              /\ \E v \in rows : rows = {v} /\ v >= Len(upgrades)
           \/ outcome[p].kind \in Errors

\* a call returned with the version beyond the end of the list
C4_Witness ==
    \E p \in writers :
        /\ pc[p] = "idle" /\ "acquire" \in io[p] /\ outcome[p].kind = "returned"
        /\ PersistedVersion > Len(upgrades)

\* ---------------------------------------------------------------- C5
\* C5: with a persisted version v above len(upgrades) and allow_unsupported
\* false, the read ends the call with UnsupportedDatabaseVersion carrying
\* (database_name, v, len(upgrades)); no body has run and the version table and
\* schema are unchanged.
C5_UnsupportedVersionRaises ==
    [][\A p \in writers :
          (Reads(p) /\ (\E v \in rows : v > Len(upgrades)) /\ ~allow_unsupported)
          => /\ pc'[p] = "idle"
             /\ outcome'[p].kind = "UnsupportedDatabaseVersion"
             /\ outcome'[p].name = database_name
             /\ outcome'[p].version \in rows
             /\ outcome'[p].latest = Len(upgrades)
             /\ nexec'[p] = 0
             /\ io'[p] = {"create", "select"}
             /\ UNCHANGED <<tableExists, rows, schema>>]_vars

\* a call has raised UnsupportedDatabaseVersion on a migrated database
C5_Witness ==
    \E p \in writers :
        /\ pc[p] = "idle" /\ outcome[p].kind = "UnsupportedDatabaseVersion"
        /\ outcome[p].version > outcome[p].latest
        /\ outcome[p].latest > 0
        /\ rows = {outcome[p].version}

\* ---------------------------------------------------------------- C6
\* C6: with a persisted version v above len(upgrades) and allow_unsupported true,
\* the read ends the call normally with a warning naming v and len(upgrades);
\* no body has run and the version table and schema are unchanged.
C6_UnsupportedVersionAllowed ==
    [][\A p \in writers :
          (Reads(p) /\ (\E v \in rows : v > Len(upgrades)) /\ allow_unsupported)
          => /\ pc'[p] = "idle"
             /\ outcome'[p].kind = "returned"
             /\ \E v \in rows : <<"warning", "unsupported", v, Len(upgrades)>> \in log'[p]
             /\ nexec'[p] = 0
             /\ io'[p] = {"create", "select"}
             /\ UNCHANGED <<tableExists, rows, schema>>]_vars

\* a call has returned with the warning on a migrated database
C6_Witness ==
    \E p \in writers :
        /\ pc[p] = "idle" /\ outcome[p].kind = "returned" /\ nexec[p] = 0
        /\ allow_unsupported
        /\ \E v \in rows : /\ v > Len(upgrades)
                           /\ <<"warning", "unsupported", v, Len(upgrades)>> \in log[p]
        /\ Len(upgrades) > 0

\* ---------------------------------------------------------------- C7
\* C7: with a persisted version equal to len(upgrades), the read ends the call
\* normally; the call has issued the table create and the version read only (no
\* acquire, no transaction, no body, no delete or insert) and the database is
\* unchanged.
C7_CurrentVersionIsNoop ==
    [][\A p \in writers :
          (Reads(p) /\ PersistedVersion = Len(upgrades))
          => /\ pc'[p] = "idle"
             /\ outcome'[p].kind = "returned"
             /\ io'[p] = {"create", "select"}
             /\ nexec'[p] = 0
             /\ log'[p] = {<<"debug", "not upgrading", Len(upgrades), Len(upgrades)>>}
             /\ UNCHANGED <<tableExists, rows, schema>>]_vars

\* a call on an up-to-date, migrated database is over
C7_Witness ==
    \E p \in writers :
        /\ pc[p] = "idle" /\ outcome[p].kind = "returned"
        /\ io[p] = {"create", "select"}
        /\ Len(upgrades) > 0 /\ rows = {Len(upgrades)}

\* ---------------------------------------------------------------- C8
\* C8 as stated: when the body of a step returns a version r that differs from
\* the computed new_version, the save makes r the persisted version, logs the
\* mismatch warning and makes r the index the loop goes on with.
C8_AsStated ==
    [][\A p \in writers :
          (StepCompletes(p) /\ ret[p] # None /\ ret[p] # new_version[p])
          => /\ rows' = {ret[p]}
             /\ <<"warning", "actually went", old_version[p], ret[p]>> \in log'[p]
             /\ version'[p] = ret[p]]_vars

\* C8 amended: when the body of a step returns a non-zero version r that differs
\* from the computed new_version and the version save succeeds, r becomes the
\* persisted version, the mismatch warning is logged, and the loop goes on at
\* index r: the next step it starts, if r < len(upgrades), is the step at index
\* r, and otherwise the call returns without running another step. A returned 0
\* is treated like None: new_version is persisted.
C8_ReturnedVersionIsTrusted ==
    /\ [][\A p \in writers :
            (StepCompletes(p) /\ ret[p] # None /\ ret[p] # 0 /\ ret[p] # new_version[p])
            => /\ rows' = {ret[p]}
               /\ <<"warning", "actually went", old_version[p], ret[p]>> \in log'[p]
               /\ version'[p] = ret[p]]_vars
    /\ [][\A p \in writers :
            (StepCompletes(p) /\ ret[p] = 0) => rows' = {new_version[p]}]_vars
    /\ [][\A p \in writers :
            (/\ pc[p] = "loop" /\ pc'[p] # "loop" /\ nexec[p] > 0
             /\ ret[p] # None /\ ret[p] # 0 /\ ret[p] # new_version[p])
            => IF ret[p] < Len(upgrades)
               THEN pc'[p] \in {"dest", "body"} /\ old_version'[p] = ret[p]
               ELSE pc'[p] = "idle" /\ outcome'[p].kind = "returned"]_vars

\* a step whose body returned a version other than new_version has been saved
\* and the step at the returned index, which is not the next one, is starting
C8_Witness ==
    \E p \in writers :
        /\ pc[p] \in {"dest", "body"} /\ nexec[p] > 0
        /\ old_version[p] = PersistedVersion
        /\ \E o \in 0..MaxVer :
              /\ <<"warning", "actually went", o, PersistedVersion>> \in log[p]
              /\ PersistedVersion > o + 1

\* ---------------------------------------------------------------- C9
\* C9: when the body of a step that asks for no transaction raises, the call
\* fails with that error, the statements the body ran stay in the schema, and
\* the version table is what it was before the step: the persisted version is
\* the index of the failed step.
C9_NonTransactionalBodyRaises ==
    [][\A p \in writers :
          (BodyRaises(p) /\ ~IsTransactional(version[p]))
          => /\ pc'[p] = "idle"
             /\ outcome'[p].kind = "StepError"
             /\ outcome'[p].version = old_version[p]
             /\ schema' = schema \cup stmts'[p]
             /\ rows' = rows
             /\ PersistedVersion' = old_version[p]]_vars

\* a non-transactional step has failed after some, not all, of its statements
C9_Witness ==
    \E p \in writers :
        /\ pc[p] = "idle" /\ outcome[p].kind = "StepError"
        /\ ~IsTransactional(outcome[p].version)
        /\ stmts[p] # {} /\ stmts[p] \subseteq schema
        /\ Statements(outcome[p].version, BodyStmts) \ schema # {}
        /\ PersistedVersion = outcome[p].version

\* --------------------------------------------------------------- C10
\* C10: register at an index p beyond the length L of the list gives a list of
\* length p + 1 whose first L entries are unchanged, whose entries L..p-1 are
\* noop_upgrade and whose entry p is the registered step with the attributes
\* given; a noop_upgrade step, when run, changes no schema and its save leaves
\* its index + 1 as the persisted version. Index 5 into the empty list gives
\* five noop_upgrade entries followed by the step.
C10_RegisterPadsWithNoops ==
    /\ \A fn \in UserFns :
          Registered(<<>>, 5, fn) = Noops(5) \o <<fn>>
    /\ [][\A fn \in RegisteredFns, index \in Indexes, description \in Descriptions,
             transaction \in BOOLEAN, upgrades_to \in Destinations :
            (/\ index > Len(upgrades)
             /\ Register(fn, index, description, transaction, upgrades_to))
            => /\ Len(upgrades') = index + 1
               /\ \A k \in 1..Len(upgrades) : upgrades'[k] = upgrades[k]
               /\ \A k \in (Len(upgrades) + 1)..index : upgrades'[k] = noop_upgrade
               /\ upgrades'[index + 1] \notin {noop_upgrade} \cup Range(upgrades)
               /\ attrs'[upgrades'[index + 1]] =
                     [tagged |-> TRUE, description |-> description,
                      transaction |-> transaction, destination |-> upgrades_to]]_vars
    /\ [][\A p \in writers :
            (pc[p] \in {"body", "save"} /\ upgrades[old_version[p] + 1] = noop_upgrade)
            => /\ schema' = schema
               /\ pc[p] = "body" => pc'[p] = "save" /\ stmts'[p] = {}
               /\ StepCompletes(p) => rows' = {old_version[p] + 1}]_vars

\* a padding step has run and has been saved
C10_Witness ==
    \E p \in writers :
        /\ pc[p] = "loop" /\ nexec[p] > 1
        /\ upgrades[old_version[p] + 1] = noop_upgrade
        /\ old_version[p] >= 1
        /\ upgrades[old_version[p]] # noop_upgrade
        /\ rows = {old_version[p] + 1}

\* ---------------------------------------------------------- SimpleTemplate

\* the characters texts are made of: a letter, two digits, a sign, the digit
\* separator and a blank
Chars == {"a", "0", "1", "-", "_", " "}
Texts == UNION {[1..n -> Chars] : n \in 0..MaxLen}
Keyword == <<"i", "d">>
Placeholder == <<"{">> \o Keyword \o <<"}">>
Types == {"int", "str"}
\* the templates: literal text before and after one placeholder, with and
\* without the outer prefix and suffix arguments
Templates ==
    {SimpleTemplate(before \o Placeholder \o after, Keyword, prefix, suffix, type) :
        before \in {<<>>, <<"a">>},
        after \in {<<>>, <<"a">>},
        prefix \in {<<>>, <<"-">>},
        suffix \in {<<>>, <<"-">>},
        type \in Types}
\* the values format_full() is called with
Args(type) ==
    IF type = "int" THEN {-1, 0, 1, 7, 10, 42}
    ELSE {t \in Texts : Len(t) <= 2}

\* SimpleTemplate.format_full(arg)
format_full(arg) ==
    /\ val' = [op |-> "format_full", arg |-> <<arg>>]
    /\ out' = <<FormatFull(self, arg)>>
    /\ UNCHANGED <<registry, database, writers, locals, history, directory, self>>

\* SimpleTemplate.parse(text)
parse(text) ==
    /\ val' = [op |-> "parse", arg |-> <<text>>]
    /\ out' = Parse(self, text)
    /\ UNCHANGED <<registry, database, writers, locals, history, directory, self>>

\* a fresh template formats one value or parses one text, and parses what it
\* has formatted
NextTemplate ==
    \/ \E arg \in Args(self.type) : val.op = "__init__" /\ format_full(arg)
    \/ \E text \in Texts : val.op = "__init__" /\ parse(text)
    \/ val.op = "format_full" /\ parse(out[1])

InitTemplate ==
    /\ InitTable
    /\ writers = {"p1"}
    /\ InitDirectory
    /\ InitFormatter(Templates)

SpecTemplate == InitTemplate /\ [][NextTemplate]_vars

\* the last call was parse(), and its argument
Parsing == val.op = "parse"
Text == val.arg[1]
StartsWith(s, t) == Len(s) >= Len(t) /\ SubSeq(s, 1, Len(t)) = t
EndsWith(s, t) == Len(s) >= Len(t) /\ SubSeq(s, Len(s) - Len(t) + 1, Len(s)) = t
\* what is left of a text between the prefix and the suffix
Middle(s) == SubSeq(s, Len(self.prefix) + 1, Len(s) - Len(self.suffix))
\* s spells an integer as the int constructor reads one: blanks around it, one
\* sign, then digits that single underscores may separate
RECURSIVE IsDigits(_)
IsDigits(s) ==
    /\ s # <<>>
    /\ Head(s) \in DigitChars
    /\ \/ Len(s) = 1
       \/ IsDigits(Tail(s))
       \/ Len(s) >= 3 /\ s[2] = "_" /\ IsDigits(Tail(Tail(s)))
RECURSIVE IsInteger(_)
IsInteger(s) ==
    /\ s # <<>>
    /\ \/ Head(s) = " " /\ IsInteger(Tail(s))
       \/ s[Len(s)] = " " /\ IsInteger(SubSeq(s, 1, Len(s) - 1))
       \/ Head(s) \in {"-", "+"} /\ IsDigits(Tail(s))
       \/ IsDigits(s)

\* --------------------------------------------------------------- C13
\* C13: with an int template, parse(format_full(v)) is v for every non-negative
\* v, and parse(text) is None for every text that does not start with the
\* prefix, or does not end with the (non-empty) suffix, or whose part between
\* prefix and suffix does not spell an integer.
C13_IntRoundTrip ==
    (Parsing /\ self.type = "int")
    => /\ \A v \in Args("int") :
             (v >= 0 /\ Text = self.prefix \o Str(v) \o self.suffix) => out = <<v>>
       /\ ~StartsWith(Text, self.prefix) => out = <<>>
       /\ (self.suffix # <<>> /\ ~EndsWith(Text, self.suffix)) => out = <<>>
       /\ ~IsInteger(Middle(Text)) => out = <<>>

\* 42 came back from a text with a prefix and a suffix around it
C13_Witness ==
    /\ Parsing /\ self.type = "int"
    /\ self.prefix # <<>> /\ self.suffix # <<>>
    /\ Text = self.prefix \o <<"4", "2">> \o self.suffix
    /\ out = <<42>>

\* --------------------------------------------------------------- C14
\* C14: with a str template whose suffix is empty, parse(text) of every text
\* that starts with the prefix is the whole rest of the text after the prefix.
C14_EmptySuffixTakesTheRest ==
    (Parsing /\ self.type = "str" /\ self.suffix = <<>> /\ StartsWith(Text, self.prefix))
    => out = <<SubSeq(Text, Len(self.prefix) + 1, Len(Text))>>

\* digits followed by more text came back whole
C14_Witness ==
    /\ Parsing /\ self.type = "str" /\ self.suffix = <<>>
    /\ self.prefix = <<"-", "a">>
    /\ Text = <<"-", "a", "1", "a">>
    /\ out = <<<<"1", "a">>>>

\* --------------------------------------------------------------- C20
\* C20 as stated: with a str template, whenever parse(text) is a value x,
\* format_full(x) is text.
C20_AsStated ==
    (Parsing /\ self.type = "str" /\ out # <<>>)
    => FormatFull(self, out[1]) = Text

\* ------------------------------------------------------- the directory

\* register_upgrade_table_parent_module(name): a new, empty UpgradeTable under
\* name, in place of the one that was there
register_upgrade_table_parent_module(name) ==
    /\ dirops < MaxDirOps
    /\ dirops' = dirops + 1
    /\ upgrade_tables' = [m \in DOMAIN upgrade_tables \cup {name} |->
                             IF m = name THEN <<>> ELSE upgrade_tables[m]]
    /\ UNCHANGED <<registry, database, writers, locals, history, found, formatter>>

\* register_upgrade(index, description)(fn) for a function defined in `module`:
\* _find_upgrade_table(fn).register(fn, index=index, description=description)
register_upgrade(fn, module, index, description) ==
    /\ dirops < MaxDirOps
    /\ dirops' = dirops + 1
    /\ IF module = NoModule
       THEN /\ found' = [kind |-> "ValueError", name |-> <<>>, module |-> module]
            /\ UNCHANGED <<upgrade_tables, attrs, wrapped>>
       ELSE LET table == FindUpgradeTable(upgrade_tables, module, 1)
                w == WrapUpgrade(fn, wrapped)
            IN /\ found' = [kind |-> table.kind, name |-> table.name, module |-> module]
               /\ IF table.kind = "returned"
                  THEN /\ attrs' = [attrs EXCEPT ![w] =
                                       [tagged |-> TRUE, description |-> description,
                                        transaction |-> TRUE, destination |-> None]]
                       /\ upgrade_tables' =
                             [upgrade_tables EXCEPT
                                ![table.name] = Registered(@, index, w)]
                       /\ wrapped' = IF w = fn THEN wrapped ELSE wrapped + 1
                  ELSE UNCHANGED <<upgrade_tables, attrs, wrapped>>
    /\ UNCHANGED <<upgrades, regs, allow_unsupported, database_name, database, writers,
                   locals, history, formatter>>

NextDir ==
    \/ \E name \in Modules : register_upgrade_table_parent_module(name)
    \/ \E fn \in UserFns, module \in Modules \cup {NoModule}, index \in Indexes,
          description \in Descriptions :
            register_upgrade(fn, module, index, description)

SpecDir == Init /\ [][NextDir]_vars

\* the numbers k for which the first k parts of a path name a registered table
DeclaredPrefixes(parts) ==
    {k \in 1..Len(parts) : SubSeq(parts, 1, k) \in DOMAIN upgrade_tables}

\* --------------------------------------------------------------- C12
\* C12: register_upgrade for a function defined in the module a.b.c registers it
\* in the table of the shortest of the prefixes a, a.b, a.b.c that names a
\* registered table and leaves every other table as it is; when no prefix names
\* a table it raises KeyError and no table and no function object has changed.
C12_ShortestDeclaredPrefixWins ==
    [][\A fn \in UserFns, module \in Modules, index \in Indexes,
         description \in Descriptions :
        register_upgrade(fn, module, index, description)
        => LET hits == DeclaredPrefixes(module)
           IN IF hits = {}
              THEN /\ found'.kind = "KeyError"
                   /\ upgrade_tables' = upgrade_tables
                   /\ attrs' = attrs
              ELSE LET k == CHOOSE i \in hits : \A j \in hits : i <= j
                       name == SubSeq(module, 1, k)
                   IN /\ found'.kind = "returned"
                      /\ found'.name = name
                      /\ DOMAIN upgrade_tables' = DOMAIN upgrade_tables
                      /\ \A m \in DOMAIN upgrade_tables :
                            m # name => upgrade_tables'[m] = upgrade_tables[m]
                      /\ \E i \in 1..Len(upgrade_tables'[name]) :
                            /\ upgrade_tables'[name][i] \in {fn} \cup Wrappers
                            /\ attrs'[upgrade_tables'[name][i]].description = description
                            /\ attrs'[upgrade_tables'[name][i]].tagged]_vars

\* a function of module x.y.z went into the table x.y although x.y.z is
\* registered too (and x is not)
C12_Witness ==
    /\ found.kind = "returned"
    /\ Len(found.module) = 3
    /\ DeclaredPrefixes(found.module) = {2, 3}
    /\ found.name = SubSeq(found.module, 1, 2)
    /\ upgrade_tables[found.name] # <<>>
    /\ upgrade_tables[found.module] = <<>>

\* --------------------------------------------------------------- C15
\* C15 as stated: every upgrade() call that has started comes to an end, by
\* returning or by raising.
C15_AsStated == \A p \in Procs : (pc[p] # "idle") ~> (pc[p] = "idle")

\* --------------------------------------------------------------- C16
\* C16 as stated: within one upgrade() call the first body run is that of the
\* step at the persisted version, and every later body run is that of a step
\* with a higher index than the one run before it.
C16_AsStated ==
    [][\A p \in writers :
          (pc[p] = "loop" /\ pc'[p] \in {"dest", "body"})
          => IF nexec[p] = 0
             THEN old_version'[p] = PersistedVersion
             ELSE old_version'[p] > old_version[p]]_vars

\* --------------------------------------------------------------- C17
\* C17 as stated: new_version of the step at index i is its destination when it
\* has one (the integer, or what the callable returned) and i + 1 when it has
\* none; the version saved for the step is what the body returned when that is
\* not None, and new_version when it is None.
C17_AsStated ==
    /\ [][\A p \in writers :
            (pc[p] = "loop" /\ pc'[p] = "body")
            => LET d == Destination(attrs, upgrades[version[p] + 1])
               IN new_version'[p] = IF d # None THEN d ELSE version[p] + 1]_vars
    /\ [][\A p \in writers, r \in DestReturns :
            ResolveDestination(p, r, FALSE) => new_version'[p] = r]_vars
    /\ [][\A p \in writers :
            StepCompletes(p)
            => rows' = {IF ret[p] # None THEN ret[p] ELSE new_version[p]}]_vars

\* C17 amended: new_version of the step at index i is its destination when that
\* is a non-zero integer, what its callable destination returned (0 included)
\* when it is callable, and i + 1 when the destination is None or 0; the version
\* saved for the step is what the body returned when that is neither None nor
\* 0, and new_version otherwise.
C17_ZeroCountsAsUnset ==
    /\ [][\A p \in writers :
            (pc[p] = "loop" /\ pc'[p] = "body")
            => LET d == Destination(attrs, upgrades[version[p] + 1])
               IN new_version'[p] = IF d # None /\ d # 0 THEN d ELSE version[p] + 1]_vars
    /\ [][\A p \in writers :
            (pc[p] = "loop" /\ pc'[p] = "dest")
            <=> (/\ pc[p] = "loop" /\ pc'[p] # "loop"
                 /\ Pending(version[p], Len(upgrades))
                 /\ Destination(attrs, upgrades[version[p] + 1]) = CALLABLE)]_vars
    /\ [][\A p \in writers, r \in DestReturns :
            ResolveDestination(p, r, FALSE) => new_version'[p] = r]_vars
    /\ [][\A p \in writers :
            StepCompletes(p)
            => rows' = {IF ret[p] # None /\ ret[p] # 0 THEN ret[p]
                                                       ELSE new_version[p]}]_vars

\* a step with the integer destination 3 whose body returned None has been
\* saved as version 3
C17_Witness ==
    \E p \in writers :
        /\ pc[p] = "loop" /\ nexec[p] > 0
        /\ Destination(attrs, upgrades[old_version[p] + 1]) = 3
        /\ old_version[p] # 2
        /\ ret[p] = None
        /\ rows = {3}

\* --------------------------------------------------------------- C18
\* C18: nothing makes one migrating process wait for another. A process that has
\* created the version table can always go on to read it; when it finds pending
\* steps it goes on into the loop at the committed version, whatever the other
\* process is doing; and the body it then runs is the one of the version it
\* read. So two processes that read the same version before either commits both
\* run the body of that step.
C18_NoMutualExclusion ==
    /\ [](\A p \in writers : pc[p] = "created" => ENABLED ReadVersion(p))
    /\ [][\A p \in writers :
            (Reads(p) /\ Pending(PersistedVersion, Len(upgrades)))
            => pc'[p] = "loop" /\ version'[p] = PersistedVersion]_vars
    /\ [][\A p \in writers :
            (pc[p] = "body" /\ pc'[p] = "save" /\ upgrades[version[p] + 1] # noop_upgrade)
            => stmts'[p] = Statements(version[p], BodyStmts)]_vars

\* both processes have run the body of the step at the version that is still
\* the committed one
C18_Witness ==
    /\ \A p \in Procs :
          /\ p \in writers
          /\ calls[p] = 1 /\ pc[p] = "save" /\ nexec[p] = 1
          /\ old_version[p] = PersistedVersion
          /\ stmts[p] = Statements(PersistedVersion, BodyStmts)
    /\ \E p \in Procs : ~inTx[p] /\ stmts[p] \subseteq schema

\* --------------------------------------------------------------- C19
\* C19 as stated: with one migrating process, no step of any upgrade() call,
\* failing or not, lowers the persisted version or leaves more than one row in
\* the version table.
C19_AsStated ==
    [][/\ PersistedVersion' >= PersistedVersion
       /\ Cardinality(rows') <= 1]_vars

\* ------------------------------------------------- the registry on its own

\* register() calls with one-argument and two-argument functions
NextReg ==
    \E fn \in UserFns, index \in Indexes, description \in Descriptions,
       transaction \in BOOLEAN, upgrades_to \in Destinations :
         Register(fn, index, description, transaction, upgrades_to)

SpecReg == Init /\ [][NextReg]_vars

\* the tags of the step a list holds at index i
Tags(at, list, i) ==
    [description |-> Description(at, list[i + 1]),
     transaction |-> Transaction(at, list[i + 1]),
     destination |-> Destination(at, list[i + 1])]

\* --------------------------------------------------------------- C11
\* C11 as stated: register at index -1 or at the length of the list makes the
\* list one longer, register at an index inside the list keeps its length; either
\* way every other position holds the step and the description, transaction flag
\* and destination it held before, and the registered position carries the
\* description, transaction flag and destination of this call.
C11_AsStated ==
    [][\A fn \in UserFns, index \in Indexes, description \in Descriptions,
         transaction \in BOOLEAN, upgrades_to \in Destinations :
        (/\ index <= Len(upgrades)
         /\ Register(fn, index, description, transaction, upgrades_to))
        => LET at == IF index = -1 THEN Len(upgrades) ELSE index
           IN /\ Len(upgrades') = IF at = Len(upgrades) THEN Len(upgrades) + 1
                                                        ELSE Len(upgrades)
              /\ \A i \in 0..(Len(upgrades) - 1) :
                    i # at => /\ upgrades'[i + 1] = upgrades[i + 1]
                              /\ Tags(attrs', upgrades', i) = Tags(attrs, upgrades, i)
              /\ Tags(attrs', upgrades', at) =
                    [description |-> description, transaction |-> transaction,
                     destination |-> upgrades_to]]_vars

====
